---- MODULE Spec2Model ----
(***************************************************************************)
(* aw-watcher-input-rs: the listener thread, the heartbeat (polling) loop  *)
(* of main and the Ctrl-C handler, sharing one Mutex<InputState> and the   *)
(* atomic RUNNING flag (src/src/main.rs).                                  *)
(*                                                                         *)
(* Scaling.  The counters are u64 and the wheel deltas i64; the model      *)
(* keeps the shape of both types at CounterBits bits (counters in          *)
(* 0 .. 2^CounterBits - 1, deltas in -2^(CounterBits-1) ..                 *)
(* 2^(CounterBits-1) - 1).  Durations are counted in ticks of 50 ms.       *)
(* `+=` on a counter is Rust's `+`: with overflow checks (the dev profile) *)
(* an overflow panics, without them (the release profile) it wraps.        *)
(***************************************************************************)
EXTENDS Integers, Sequences, FiniteSets, TLC

\* ------------------------------------------------------------------ bounds
CounterBits == 4
MaxEvents == 2
MaxIters == 2
MaxSleep == 3

\* --------------------------------------------------------------- constants
default_polling_interval == 1
TicksPerSecond == 20
sleep_interval == 2

Modulus == 2 ^ CounterBits
MinDelta == -(2 ^ (CounterBits - 1))

Counters == {"presses", "clicks", "delta_x", "delta_y", "scroll_x", "scroll_y"}

ZeroCounters == [c \in Counters |-> 0]

CountersOf(st) == [c \in Counters |-> st[c]]

\* InputState::default(): six zero counters, last_activity = Instant::now().
InputStateDefault(now) ==
    [presses |-> 0, clicks |-> 0, delta_x |-> 0, delta_y |-> 0,
     scroll_x |-> 0, scroll_y |-> 0, last_activity |-> now]

\* ------------------------------------------------------------------ events
\* rdev::EventType.  A MouseMove's coordinates are never read; KeyRelease
\* stands for the kinds the `_` arm takes.
Ev(t, dx, dy) == [type |-> t, delta_x |-> dx, delta_y |-> dy]

NoEvent == Ev("None", 0, 0)

WheelDeltas == {<<0, 0>>, <<-4, MinDelta>>}

EventTypes ==
    {Ev(t, 0, 0) : t \in {"KeyPress", "KeyRelease", "ButtonPress", "MouseMove"}}
    \cup {Ev("Wheel", d[1], d[2]) : d \in WheelDeltas}

\* i64::unsigned_abs: the magnitude as a u64 (defined for i64::MIN too).
unsigned_abs(d) == IF d < 0 THEN -d ELSE d

\* The counter writes of the match on event.event_type, in program order.
CounterWrites(e) ==
    CASE e.type = "KeyPress"    -> << <<"presses", 1>> >>
      [] e.type = "ButtonPress" -> << <<"clicks", 1>> >>
      [] e.type = "MouseMove"   -> << <<"delta_x", 1>>, <<"delta_y", 1>> >>
      [] e.type = "Wheel"       -> << <<"scroll_x", unsigned_abs(e.delta_x)>>,
                                      <<"scroll_y", unsigned_abs(e.delta_y)>> >>
      [] OTHER                  -> << >>

\* update_activity after the match: true in the four counting arms.
update_activity(e) == e.type \in {"KeyPress", "ButtonPress", "MouseMove", "Wheel"}

\* u64 `+`: the overflow condition and the wrapped result.
Overflows(a, b) == a + b >= Modulus

WrappingAdd(a, b) == (a + b) % Modulus

\* One `state_guard.f += amt`.
AddToCounter(st, f, amt) == [st EXCEPT ![f] = WrappingAdd(st[f], amt)]

\* Mutant: the activity mark is written for every event kind.
MarkActivity_Always(st, e, now) == [st EXCEPT !.last_activity = now]

\* `if update_activity { state_guard.last_activity = now; }`
MarkActivity(st, e, now) ==
    IF update_activity(e) THEN [st EXCEPT !.last_activity = now] ELSE st

\* The drain block of main: the copy, and the reset that keeps last_activity.
DrainCopy(st) == st

\* Mutant: the reset is skipped.
DrainReset_Keeps(st) == st

DrainReset(st) == InputStateDefault(st.last_activity)

\* saturating_sub on Duration.
saturating_sub(a, b) == IF a > b THEN a - b ELSE 0

\* The classified (non-ignored) kinds: key-down, button-down, pointer-move
\* and wheel notifications.
Classified(e) == e.type \in {"KeyPress", "ButtonPress", "MouseMove", "Wheel"}

\* The contribution of one event to the six counters, as naturals.
Contribution(e) ==
    [c \in Counters |->
        CASE c = "presses"  -> IF e.type = "KeyPress" THEN 1 ELSE 0
          [] c = "clicks"   -> IF e.type = "ButtonPress" THEN 1 ELSE 0
          [] c = "delta_x"  -> IF e.type = "MouseMove" THEN 1 ELSE 0
          [] c = "delta_y"  -> IF e.type = "MouseMove" THEN 1 ELSE 0
          [] c = "scroll_x" -> IF e.type = "Wheel" THEN unsigned_abs(e.delta_x) ELSE 0
          [] c = "scroll_y" -> IF e.type = "Wheel" THEN unsigned_abs(e.delta_y) ELSE 0]

AddCounters(a, b) == [c \in Counters |-> a[c] + b[c]]

\* ------------------------------------------------------------------- state
VARIABLES
    mode,             \* "listen" | "grab": the cfg the binary was built with
    overflow_checks,  \* whether `+` panics on overflow (dev) or wraps (release)
    RUNNING,          \* static RUNNING: AtomicBool
    state,            \* the InputState inside the Mutex
    lock_holder,      \* "none" | "listener" | "main": who holds the MutexGuard
    poisoned,         \* the Mutex's poison flag
    clock,            \* the last Instant handed out by Instant::now()
    pc_l,             \* listener thread: "listening" | "lock" | "update" | "mark" | "dead"
    ev,               \* the event of the callback invocation in progress
    now_l,            \* the callback's `now`
    wi,               \* index of the next counter write of the match arm
    returned,         \* what the last callback invocation returned to the capture subsystem
    pc_m,             \* main: "loop" | "lock" | "copy" | "reset" | "send" | "elapsed"
                      \*       | "warn" | "sleepcheck" | "sleeping" | "done"
    data,             \* main's `data`
    remaining,        \* main's `remaining`, in ticks
    current_sleep,    \* main's `current_sleep`, in ticks
    elapsed,          \* main's `elapsed`, in ticks
    pc_h,             \* Ctrl-C handler: "idle" | "store" | "grace" | "exited"
    proc,             \* "running" | "exited" | "aborted"
    exit_code,        \* the status passed to process::exit (-1: none yet)
    \* history variables (not program state)
    nEvents,          \* callback invocations so far
    applied,          \* summed Contribution of the callbacks completed under the lock
    drained,          \* summed counters of the snapshots drained under the lock
    since,            \* [sum, n, classified, last] of the callbacks completed since the
                      \* last drain (last: the `now` of the latest classified one)
    period,           \* `since` as the last drain found it
    snap,             \* the snapshot of the last drain that held the lock
    prev_snap,        \* the snapshot of the drain before that
    post_drain,       \* the InputState the last drain left
    prev_post,        \* the InputState the drain before that left
    nIter,            \* loop iterations started
    nDrains,          \* drains that held the lock
    nLockFailed,      \* [listener, main]: lock() calls that returned Err
    nSends,           \* heartbeat calls made
    send_result,      \* "none" | "ok" | "err": what the last heartbeat call returned
    sent,             \* the Event of the last heartbeat call
    reported,         \* summed counters of the Events of all heartbeat calls
    overflowed,       \* a counter addition has exceeded the counter's width
    late_write,       \* the listener wrote InputState while RUNNING was false
    increased,        \* a counter has strictly increased in the listener's critical section
    m_lock,           \* "none" | "ok" | "err": main's lock() of the current iteration
    capture_failed,   \* the blocking listen()/grab() call has returned Err
    slept             \* ticks slept so far by the remainder sleep of the iteration

prog_vars == <<mode, overflow_checks, RUNNING, state, lock_holder, poisoned, clock,
               pc_l, ev, now_l, wi, returned, pc_m, data, remaining, current_sleep,
               elapsed, pc_h, proc, exit_code>>

hist_vars == <<nEvents, applied, drained, since, period, snap, prev_snap,
               post_drain, prev_post, nIter, nDrains, nLockFailed, nSends,
               send_result, sent, reported, overflowed, late_write, increased, m_lock,
               capture_failed, slept>>

vars == <<prog_vars, hist_vars>>

NoSince == [sum |-> ZeroCounters, n |-> 0, classified |-> 0, last |-> 0]

NoSent == [duration |-> 0, data |-> ZeroCounters]

polling_interval == default_polling_interval

\* Duration::from_secs(polling_interval), in ticks.
Interval == polling_interval * TicksPerSecond

Init ==
    /\ mode \in {"listen", "grab"}
    /\ overflow_checks \in BOOLEAN
    /\ RUNNING = TRUE
    /\ state = InputStateDefault(0)
    /\ lock_holder = "none"
    /\ poisoned = FALSE
    /\ clock = 0
    /\ pc_l = "listening"
    /\ ev = NoEvent
    /\ now_l = 0
    /\ wi = 1
    /\ returned = NoEvent
    /\ pc_m = "loop"
    /\ data = InputStateDefault(0)
    /\ remaining = 0
    /\ current_sleep = 0
    /\ elapsed = 0
    /\ pc_h = "idle"
    /\ proc = "running"
    /\ exit_code = -1
    /\ nEvents = 0
    /\ applied = ZeroCounters
    /\ drained = ZeroCounters
    /\ since = NoSince
    /\ period = NoSince
    /\ snap = InputStateDefault(0)
    /\ prev_snap = InputStateDefault(0)
    /\ post_drain = InputStateDefault(0)
    /\ prev_post = InputStateDefault(0)
    /\ nIter = 0
    /\ nDrains = 0
    /\ nLockFailed = [listener |-> 0, main |-> 0]
    /\ nSends = 0
    /\ send_result = "none"
    /\ sent = NoSent
    /\ reported = ZeroCounters
    /\ overflowed = FALSE
    /\ late_write = FALSE
    /\ increased = FALSE
    /\ m_lock = "none"
    /\ capture_failed = FALSE
    /\ slept = 0

\* -------------------------------------------------------- shared primitives
\* Mutex::lock() returns once no other guard is alive.
LockAvailable == lock_holder = "none"

\* std::process::exit(code): every thread stops.
ProcessExit(code) == proc' = "exited" /\ exit_code' = code

\* A panic inside the callback while the guard is alive.  It either unwinds
\* the listener thread (the guard is dropped and poisons the Mutex) or, where
\* the callback runs under frames that cannot unwind, aborts the process.
PanicInCallback ==
    \/ /\ lock_holder' = "none"
       /\ poisoned' = TRUE
       /\ pc_l' = "dead"
       /\ UNCHANGED <<proc, exit_code>>
    \/ /\ proc' = "aborted"
       /\ UNCHANGED <<lock_holder, poisoned, pc_l, exit_code>>

build_vars == <<mode, overflow_checks>>

listener_vars == <<pc_l, ev, now_l, wi, returned>>

main_vars == <<pc_m, data, remaining, current_sleep, elapsed>>

proc_vars == <<proc, exit_code>>

event_hist == <<applied, since>>

drain_hist == <<drained, period, snap, prev_snap, post_drain, prev_post, nDrains>>

send_hist == <<nSends, send_result, sent, reported>>

misc_hist == <<nLockFailed, overflowed, late_write, increased, m_lock, capture_failed>>

sleep_hist == <<slept>>

\* The history variables the remainder sleep leaves alone.
other_hist == <<nEvents, event_hist, drain_hist, send_hist, nIter, misc_hist>>

\* ----------------------------------------------------------- listener thread
\* Mutant: the grab callback returns None, which suppresses the event.
CallbackResult_Suppresses(m, e) == NoEvent

\* The value the callback returns: the listen callback returns (), written
\* NoEvent; the grab callback returns `Some(event)`.
CallbackResult(m, e) == IF m = "grab" THEN e ELSE NoEvent

\* Mutant: the callback does not look at RUNNING.
CallbackProceeds_NoCheck(running) == TRUE

\* `if !RUNNING.load(SeqCst) { process::exit(0) }` at the head of the callback.
CallbackProceeds(running) == running

\* The capture subsystem invokes the callback with event e: the RUNNING check,
\* then `now = Instant::now()`.
ListenerCallback(e) ==
    /\ proc = "running"
    /\ pc_l = "listening"
    /\ nEvents < MaxEvents
    /\ nEvents' = nEvents + 1
    /\ IF CallbackProceeds(RUNNING)
       THEN /\ clock' = clock + 1
            /\ now_l' = clock + 1
            /\ ev' = e
            /\ pc_l' = "lock"
            /\ UNCHANGED <<wi, returned, proc_vars>>
       ELSE /\ ProcessExit(0)
            /\ UNCHANGED <<clock, listener_vars>>
    /\ UNCHANGED <<build_vars, RUNNING, state, lock_holder, poisoned, main_vars, pc_h,
                   event_hist, drain_hist, send_hist, sleep_hist, nIter, misc_hist>>

\* `if let Ok(mut state_guard) = state_clone.lock()`: on Err (a poisoned
\* Mutex) the block is skipped and the callback returns.
ListenerLock ==
    /\ proc = "running"
    /\ pc_l = "lock"
    /\ LockAvailable
    /\ IF poisoned
       THEN /\ pc_l' = "listening"
            /\ ev' = NoEvent
            /\ returned' = CallbackResult(mode, ev)
            /\ nLockFailed' = [nLockFailed EXCEPT !.listener = @ + 1]
            /\ UNCHANGED <<lock_holder, wi, increased>>
       ELSE /\ lock_holder' = "listener"
            /\ wi' = 1
            /\ increased' = FALSE
            /\ pc_l' = IF CounterWrites(ev) = << >> THEN "mark" ELSE "update"
            /\ UNCHANGED <<ev, returned, nLockFailed>>
    /\ UNCHANGED <<build_vars, RUNNING, state, poisoned, clock, now_l, main_vars, pc_h,
                   proc_vars, nEvents, event_hist, drain_hist, send_hist, sleep_hist, nIter,
                   overflowed, late_write, m_lock, capture_failed>>

\* One counter write of the match arm: `state_guard.f += amt`.
ListenerUpdate ==
    /\ proc = "running"
    /\ pc_l = "update"
    /\ LET w == CounterWrites(ev)[wi]
           f == w[1]
           amt == w[2]
       IN  IF overflow_checks /\ Overflows(state[f], amt)
           THEN /\ PanicInCallback
                /\ overflowed' = TRUE
                /\ UNCHANGED <<state, wi, late_write, increased>>
           ELSE /\ state' = AddToCounter(state, f, amt)
                /\ wi' = wi + 1
                /\ pc_l' = IF wi = Len(CounterWrites(ev)) THEN "mark" ELSE "update"
                /\ overflowed' = (overflowed \/ Overflows(state[f], amt))
                /\ late_write' = (late_write \/ ~RUNNING)
                /\ increased' = (increased \/ AddToCounter(state, f, amt)[f] > state[f])
                /\ UNCHANGED <<lock_holder, poisoned, proc_vars>>
    /\ UNCHANGED <<build_vars, RUNNING, clock, ev, now_l, returned, main_vars, pc_h,
                   nEvents, event_hist, drain_hist, send_hist, sleep_hist, nIter, nLockFailed,
                   m_lock, capture_failed>>

\* `if update_activity { state_guard.last_activity = now; }`, then the guard
\* is dropped and the callback returns.
ListenerMark ==
    /\ proc = "running"
    /\ pc_l = "mark"
    /\ state' = MarkActivity(state, ev, now_l)
    /\ lock_holder' = "none"
    /\ pc_l' = "listening"
    /\ ev' = NoEvent
    /\ returned' = CallbackResult(mode, ev)
    /\ applied' = AddCounters(applied, Contribution(ev))
    /\ since' = [sum |-> AddCounters(since.sum, Contribution(ev)),
                 n |-> since.n + 1,
                 classified |-> since.classified + (IF Classified(ev) THEN 1 ELSE 0),
                 last |-> IF Classified(ev) THEN now_l ELSE since.last]
    /\ late_write' = (late_write \/ (MarkActivity(state, ev, now_l) # state /\ ~RUNNING))
    /\ increased' = FALSE
    /\ UNCHANGED <<build_vars, RUNNING, poisoned, clock, now_l, wi, main_vars, pc_h,
                   proc_vars, nEvents, drain_hist, send_hist, sleep_hist, nIter, nLockFailed,
                   overflowed, m_lock, capture_failed>>

\* What the listener thread does when the blocking listen()/grab() call
\* returns Err: listen mode prints and lets the thread end, grab mode prints
\* and calls process::exit(1).
CaptureErrorExits(m) == m = "grab"

CaptureError ==
    /\ proc = "running"
    /\ pc_l = "listening"
    /\ IF CaptureErrorExits(mode)
       THEN /\ ProcessExit(1)
            /\ UNCHANGED pc_l
       ELSE /\ pc_l' = "dead"
            /\ UNCHANGED proc_vars
    /\ capture_failed' = TRUE
    /\ UNCHANGED <<build_vars, RUNNING, state, lock_holder, poisoned, clock, ev, now_l, wi,
                   returned, main_vars, pc_h, nEvents, event_hist, drain_hist, send_hist, sleep_hist, nIter,
                   nLockFailed, overflowed, late_write, increased, m_lock>>

\* ---------------------------------------------------------------- main thread
\* `while RUNNING.load(SeqCst)`.
LoopContinues(running) == running

\* Mutant: on leaving the loop main drains once more and sends a last heartbeat.
MainLoop_FinalFlush ==
    /\ proc = "running"
    /\ pc_m = "loop"
    /\ IF LoopContinues(RUNNING)
       THEN /\ nIter < MaxIters
            /\ nIter' = nIter + 1
            /\ pc_m' = "lock"
            /\ m_lock' = "none"
            /\ UNCHANGED <<proc_vars, state, data, drained, send_hist>>
       ELSE /\ LockAvailable /\ ~poisoned
            /\ pc_m' = "done"
            /\ ProcessExit(0)
            /\ data' = DrainCopy(state)
            /\ state' = DrainReset(state)
            /\ drained' = AddCounters(drained, CountersOf(state))
            /\ nSends' = nSends + 1
            /\ sent' = [duration |-> polling_interval, data |-> CountersOf(state)]
            /\ reported' = AddCounters(reported, CountersOf(state))
            /\ UNCHANGED <<nIter, m_lock, send_result>>
    /\ UNCHANGED <<build_vars, RUNNING, lock_holder, poisoned, clock, listener_vars,
                   remaining, current_sleep, elapsed, pc_h, nEvents, event_hist, period, snap,
                   prev_snap, post_drain, prev_post, nDrains, sleep_hist, nLockFailed,
                   overflowed, late_write, increased, capture_failed>>

\* The head of the polling loop; when the loop ends main returns and the
\* process exits with status 0.
MainLoop ==
    /\ proc = "running"
    /\ pc_m = "loop"
    /\ IF LoopContinues(RUNNING)
       THEN /\ nIter < MaxIters
            /\ nIter' = nIter + 1
            /\ pc_m' = "lock"
            /\ m_lock' = "none"
            /\ UNCHANGED proc_vars
       ELSE /\ pc_m' = "done"
            /\ ProcessExit(0)
            /\ UNCHANGED <<nIter, m_lock>>
    /\ UNCHANGED <<build_vars, RUNNING, state, lock_holder, poisoned, clock, listener_vars,
                   data, remaining, current_sleep, elapsed, pc_h, nEvents, event_hist, drain_hist,
                   send_hist, sleep_hist, nLockFailed, overflowed, late_write, increased,
                   capture_failed>>

\* Mutant: main reads InputState through the poisoned guard.
LockFailedSnapshot_ReadsState(now) == [state EXCEPT !.last_activity = now]

\* The else branch of the drain block: `InputState::default()`.
LockFailedSnapshot(now) == InputStateDefault(now)

\* `if let Ok(mut state_guard) = input_state.lock()`.
MainLock ==
    /\ proc = "running"
    /\ pc_m = "lock"
    /\ LockAvailable
    /\ IF poisoned
       THEN /\ data' = LockFailedSnapshot(clock)
            /\ pc_m' = "send"
            /\ nLockFailed' = [nLockFailed EXCEPT !.main = @ + 1]
            /\ m_lock' = "err"
            /\ UNCHANGED lock_holder
       ELSE /\ lock_holder' = "main"
            /\ pc_m' = "copy"
            /\ m_lock' = "ok"
            /\ UNCHANGED <<data, nLockFailed>>
    /\ UNCHANGED <<build_vars, RUNNING, state, poisoned, clock, listener_vars,
                   remaining, current_sleep, elapsed, pc_h, proc_vars, nEvents, event_hist,
                   drain_hist, send_hist, sleep_hist, nIter, overflowed, late_write, increased,
                   capture_failed>>

\* `let data = InputState { presses: state_guard.presses, ... }`.
MainCopy ==
    /\ proc = "running"
    /\ pc_m = "copy"
    /\ data' = DrainCopy(state)
    /\ pc_m' = "reset"
    /\ UNCHANGED <<build_vars, RUNNING, state, lock_holder, poisoned, clock, listener_vars,
                   remaining, current_sleep, elapsed, pc_h, proc_vars, hist_vars>>

\* Mutant: the guard outlives the drain block (it is dropped at the end of
\* the loop body instead).
MainReset_KeepsGuard ==
    /\ proc = "running"
    /\ pc_m = "reset"
    /\ state' = DrainReset(state)
    /\ pc_m' = "send"
    /\ drained' = AddCounters(drained, CountersOf(data))
    /\ period' = since
    /\ since' = NoSince
    /\ prev_snap' = snap
    /\ snap' = data
    /\ prev_post' = post_drain
    /\ post_drain' = state'
    /\ nDrains' = nDrains + 1
    /\ UNCHANGED <<build_vars, RUNNING, lock_holder, poisoned, clock, listener_vars, data,
                   remaining, current_sleep, elapsed, pc_h, proc_vars, nEvents, applied,
                   send_hist, sleep_hist, nIter, misc_hist>>

\* `*state_guard = InputState { last_activity, ..Default::default() }`, then
\* the guard is dropped at the end of the block.
MainReset ==
    /\ proc = "running"
    /\ pc_m = "reset"
    /\ state' = DrainReset(state)
    /\ lock_holder' = "none"
    /\ pc_m' = "send"
    /\ drained' = AddCounters(drained, CountersOf(data))
    /\ period' = since
    /\ since' = NoSince
    /\ prev_snap' = snap
    /\ snap' = data
    /\ prev_post' = post_drain
    /\ post_drain' = state'
    /\ nDrains' = nDrains + 1
    /\ UNCHANGED <<build_vars, RUNNING, poisoned, clock, listener_vars, data, remaining,
                   current_sleep, elapsed, pc_h, proc_vars, nEvents, applied, send_hist,
                   sleep_hist, nIter, misc_hist>>

\* Mutant: the Event is built from the shared InputState, read after the reset.
HeartbeatEvent_FromState(d) == [duration |-> polling_interval, data |-> CountersOf(state)]

\* The Event built from `data`: duration and the six counters.
HeartbeatEvent(d) == [duration |-> polling_interval, data |-> CountersOf(d)]

\* Mutant: a failed heartbeat is sent again.
AfterSend_Retries(r) == IF r = "err" THEN "send" ELSE "elapsed"

\* Where main continues after client.heartbeat returned r: both arms of the
\* match fall through to the elapsed-time computation.
AfterSend(r) == "elapsed"

\* `match client.heartbeat(&bucket_id, &event, pulsetime)`.
MainSend ==
    /\ proc = "running"
    /\ pc_m = "send"
    /\ \E r \in {"ok", "err"} :
          /\ send_result' = r
          /\ pc_m' = AfterSend(r)
    /\ nSends' = nSends + 1
    /\ sent' = HeartbeatEvent(data)
    /\ reported' = AddCounters(reported, HeartbeatEvent(data).data)
    /\ UNCHANGED <<build_vars, RUNNING, state, lock_holder, poisoned, clock, listener_vars,
                   data, remaining, current_sleep, elapsed, pc_h, proc_vars, nEvents,
                   event_hist, drain_hist, sleep_hist, nIter, misc_hist>>

\* The elapsed times the model draws, in ticks: MaxSleep ticks short of the
\* interval (a remainder of several slices), one tick short of it (a single
\* short slice), the interval itself, and one tick over it.
ElapsedChoices ==
    {IF Interval > MaxSleep THEN Interval - MaxSleep ELSE 0,
     Interval - 1, Interval, Interval + 1}

\* Mutant: an iteration that took exactly the interval is not an overrun.
SleepsRemainder_Inclusive(e) == e <= Interval

\* `if elapsed < Duration::from_secs(polling_interval)`.
SleepsRemainder(e) == e < Interval

\* `let elapsed = loop_start.elapsed(); if elapsed < interval {...} else {warn}`.
MainElapsed ==
    /\ proc = "running"
    /\ pc_m = "elapsed"
    /\ \E e \in ElapsedChoices :
          /\ elapsed' = e
          /\ IF SleepsRemainder(e)
             THEN /\ remaining' = Interval - e
                  /\ pc_m' = "sleepcheck"
             ELSE /\ pc_m' = "warn"
                  /\ UNCHANGED remaining
    /\ UNCHANGED <<build_vars, RUNNING, state, lock_holder, poisoned, clock, listener_vars,
                   data, current_sleep, pc_h, proc_vars, hist_vars>>

\* The else branch: `eprintln!("Warning: Operations took longer ...")`, which
\* ends the iteration.
MainWarn ==
    /\ proc = "running"
    /\ pc_m = "warn"
    /\ elapsed' = 0
    /\ pc_m' = "loop"
    /\ UNCHANGED <<build_vars, RUNNING, state, lock_holder, poisoned, clock, listener_vars,
                   data, remaining, current_sleep, pc_h, proc_vars, hist_vars>>

\* Mutant: the sliced sleep does not look at RUNNING.
SleepContinues_IgnoresFlag(rem, running) == rem > 0

\* `while remaining > Duration::from_millis(0) && RUNNING.load(SeqCst)`.
SleepContinues(rem, running) == rem > 0 /\ running

\* `if remaining > sleep_interval { sleep_interval } else { remaining }`.
NextSlice(rem) == IF rem > sleep_interval THEN sleep_interval ELSE rem

\* The head of the sliced sleep: the condition and the choice of current_sleep.
\* Leaving the sleep ends the iteration, and with it the scope of its locals.
MainSleepCheck ==
    /\ proc = "running"
    /\ pc_m = "sleepcheck"
    /\ IF SleepContinues(remaining, RUNNING)
       THEN /\ current_sleep' = NextSlice(remaining)
            /\ pc_m' = "sleeping"
            /\ UNCHANGED <<elapsed, slept>>
       ELSE /\ pc_m' = "loop"
            /\ current_sleep' = 0
            /\ elapsed' = 0
            /\ slept' = 0
    /\ remaining' = IF SleepContinues(remaining, RUNNING) THEN remaining ELSE 0
    /\ UNCHANGED <<build_vars, RUNNING, state, lock_holder, poisoned, clock, listener_vars,
                   data, pc_h, proc_vars, other_hist>>

\* `sleep(current_sleep); remaining = remaining.saturating_sub(current_sleep)`.
MainSleep ==
    /\ proc = "running"
    /\ pc_m = "sleeping"
    /\ remaining' = saturating_sub(remaining, current_sleep)
    /\ pc_m' = "sleepcheck"
    /\ slept' = slept + current_sleep
    /\ UNCHANGED <<build_vars, RUNNING, state, lock_holder, poisoned, clock, listener_vars,
                   data, current_sleep, elapsed, pc_h, proc_vars, other_hist>>

\* ------------------------------------------------------------ Ctrl-C handler
\* The signal arrives and the handler closure starts (its println).
Signal ==
    /\ proc = "running"
    /\ pc_h = "idle"
    /\ pc_h' = "store"
    /\ UNCHANGED <<build_vars, RUNNING, state, lock_holder, poisoned, clock, listener_vars,
                   main_vars, proc_vars, hist_vars>>

\* Mutant: the handler goes to its grace period without the store.
HandlerStore_NoStore ==
    /\ proc = "running"
    /\ pc_h = "store"
    /\ pc_h' = "grace"
    /\ UNCHANGED <<build_vars, RUNNING, state, lock_holder, poisoned, clock, listener_vars,
                   main_vars, proc_vars, hist_vars>>

\* `RUNNING.store(false, SeqCst)`.
HandlerStore ==
    /\ proc = "running"
    /\ pc_h = "store"
    /\ RUNNING' = FALSE
    /\ pc_h' = "grace"
    /\ UNCHANGED <<build_vars, state, lock_holder, poisoned, clock, listener_vars,
                   main_vars, proc_vars, hist_vars>>

\* Mutant: the handler returns after the grace period without ending the process.
HandlerExit_NoForce ==
    /\ proc = "running"
    /\ pc_h = "grace"
    /\ pc_h' = "exited"
    /\ UNCHANGED <<build_vars, RUNNING, state, lock_holder, poisoned, clock, listener_vars,
                   main_vars, proc_vars, hist_vars>>

\* `sleep(100 ms); process::exit(0)`.
HandlerExit ==
    /\ proc = "running"
    /\ pc_h = "grace"
    /\ pc_h' = "exited"
    /\ ProcessExit(0)
    /\ UNCHANGED <<build_vars, RUNNING, state, lock_holder, poisoned, clock, listener_vars,
                   main_vars, hist_vars>>

\* ------------------------------------------------------------- specification
Next ==
    \/ \E e \in EventTypes : ListenerCallback(e)
    \/ ListenerLock
    \/ ListenerUpdate
    \/ ListenerMark
    \/ CaptureError
    \/ MainLoop
    \/ MainLock
    \/ MainCopy
    \/ MainReset
    \/ MainSend
    \/ MainElapsed
    \/ MainWarn
    \/ MainSleepCheck
    \/ MainSleep
    \/ Signal
    \/ HandlerStore
    \/ HandlerExit

Spec == Init /\ [][Next]_vars

\* The Ctrl-C handler runs on a thread of its own, which the OS schedules.
FairSpec == Spec /\ WF_vars(HandlerStore) /\ WF_vars(HandlerExit)

\* A thread that holds the guard is running, not blocked: main finishes its
\* drain block.  A callback parked in lock() is woken when the guard is
\* dropped, and main stays outside the drain block for the rest of the
\* interval, so the callback gets the Mutex.
LockFairSpec == Spec /\ WF_vars(MainCopy) /\ WF_vars(MainReset) /\ SF_vars(ListenerLock)

\* ===================================================================== claims
\* The addition of the six counters of drained snapshots and of the current
\* InputState, as naturals.
Accounted == AddCounters(drained, CountersOf(state))

\* The Mutex can be acquired: no guard is alive and it is not poisoned.
LockFree == lock_holder = "none" /\ ~poisoned

\* C1: whenever the lock is free, for each of the six counters the sum of the
\* counter over the snapshots drained so far plus its current value in
\* InputState equals the total contribution of the events whose callback
\* completed under the lock.
C1_NoLossNoDoubleCount == LockFree => (Accounted = applied)

\* C1, as far as the code supports it: the same accounting in the states in
\* which no counter addition has overflowed.
C1_UpToOverflow == (lock_holder = "none" /\ ~overflowed) => (Accounted = applied)

\* C2: the snapshot of the second of two consecutive drains equals the
\* per-kind sums of the events applied between them (all-zero with no event).
C2_SnapshotIsPerKindSums == (nDrains >= 2) => (CountersOf(snap) = period.sum)

\* C2, as far as the code supports it: the per-kind sums when no counter
\* addition has overflowed.
C2_UpToOverflow == (nDrains >= 2 /\ ~overflowed) => (CountersOf(snap) = period.sum)

\* A step of main that ends a drain under the lock.
DrainStep == pc_m = "reset" /\ pc_m' = "send"

\* C3: each drain returns the counters InputState held and leaves them zero
\* with last_activity kept; of two consecutive drains with no event applied
\* in between, the second returns an all-zero snapshot and leaves InputState
\* as the first left it.
C3_DrainTwice ==
    /\ []((nDrains >= 2 /\ period.n = 0)
            => (CountersOf(snap) = ZeroCounters /\ post_drain = prev_post))
    /\ [][DrainStep => /\ CountersOf(snap') = CountersOf(state)
                       /\ CountersOf(state') = ZeroCounters
                       /\ state'.last_activity = state.last_activity]_vars

\* C3 witness: a drain that returned counts, then a drain with nothing in between.
C3_Witness ==
    /\ nDrains >= 2
    /\ period.n = 0
    /\ CountersOf(prev_snap) # ZeroCounters
    /\ CountersOf(snap) = ZeroCounters

\* C4: last_activity changes only in the step that completes the application
\* of a classified event; a drain zeroes the counters and keeps it; so the
\* last_activity of two consecutive drains differs only if a classified event
\* was applied between them.
C4_LastActivityFrame ==
    /\ [][state'.last_activity # state.last_activity
            => (pc_l = "mark" /\ pc_l' = "listening" /\ Classified(ev))]_vars
    /\ [][DrainStep => state'.last_activity = state.last_activity]_vars
    /\ []((nDrains >= 2 /\ snap.last_activity # prev_snap.last_activity)
            => period.classified >= 1)

\* C4 witness: two consecutive drains that saw different last_activity, the
\* period between them holding an ignored event as well.
C4_Witness ==
    /\ nDrains >= 2
    /\ snap.last_activity # prev_snap.last_activity
    /\ period.n > period.classified

\* C5 as claimed: the listener never writes InputState in a state in which
\* RUNNING is already false.
C5_NoWriteAfterShutdown == ~late_write

\* C5 amended: a callback invocation that starts when RUNNING is false
\* acquires no lock and writes nothing (its first statement ends the
\* process); only a callback whose check read true goes on to the lock.
C5_CheckBeforeLock ==
    [][(~RUNNING /\ pc_l = "listening")
         => (pc_l' \in {"listening", "dead"} /\ lock_holder' # "listener")]_vars

\* C5 witness: the callback found RUNNING false and ended the process (the
\* exit is neither the handler's nor main's).
C5_Witness ==
    /\ ~RUNNING
    /\ proc = "exited"
    /\ exit_code = 0
    /\ pc_h # "exited"
    /\ pc_m # "done"

\* The lifecycle of section 4.4.
Phase ==
    IF proc # "running" THEN "Terminated"
    ELSE IF RUNNING THEN "Running" ELSE "ShuttingDown"

\* C6: once the signal is delivered the process eventually terminates,
\* whatever the listener and main are doing; the handler's store moves the
\* lifecycle Running -> ShuttingDown, its exit ShuttingDown -> Terminated,
\* and the lifecycle never moves backwards.
C6_ShutdownTerminates ==
    /\ (pc_h # "idle") ~> (proc # "running")
    /\ [][/\ (pc_h = "store" /\ pc_h' # pc_h)
                => (Phase = "Running" /\ Phase' = "ShuttingDown")
          /\ (pc_h = "grace" /\ pc_h' # pc_h)
                => (Phase = "ShuttingDown" /\ Phase' = "Terminated")
          /\ Phase = "ShuttingDown" => Phase' \in {"ShuttingDown", "Terminated"}
          /\ Phase = "Terminated" => Phase' = "Terminated"]_vars

\* C6 witness: the handler ended the process while the listener was blocked
\* in the capture call and main was inside the heartbeat call.
C6_Witness ==
    /\ proc = "exited"
    /\ pc_h = "exited"
    /\ pc_l = "listening"
    /\ pc_m = "send"

\* C7: with RUNNING false, main in its sliced sleep starts no further slice
\* (it finishes the one in progress, then leaves the sleep loop), and from
\* the sleep it reaches the loop head and from there only the end of main:
\* no further iteration, drain or heartbeat.
C7_SleepReactsToShutdown ==
    [][(~RUNNING /\ pc_m \in {"sleepcheck", "sleeping", "loop"})
         => /\ pc_m = "sleeping" => pc_m' \in {"sleeping", "sleepcheck"}
            /\ pc_m = "sleepcheck" => pc_m' \in {"sleepcheck", "loop"}
            /\ pc_m = "loop" => pc_m' \in {"loop", "done"}
            /\ nIter' = nIter
            /\ nDrains' = nDrains
            /\ nSends' = nSends]_vars

\* C7 witness: RUNNING became false during a slice that was not the last one.
C7_Witness ==
    /\ ~RUNNING
    /\ proc = "running"
    /\ pc_m = "sleeping"
    /\ remaining > current_sleep

\* The pcs of main after the heartbeat call of the iteration.
AfterSendPcs == {"elapsed", "warn", "sleepcheck", "sleeping", "loop", "done"}

\* C8: the heartbeat call is made once per iteration; whatever it returns,
\* main goes on to the elapsed-time computation and the remainder sleep with
\* InputState untouched and the process running, and a failure is followed
\* by a fresh drain and send in the next iteration.
C8_FailedSendNonFatal ==
    /\ [][nSends' # nSends
            => /\ nSends' = nSends + 1
               /\ pc_m' = "elapsed"
               /\ state' = state
               /\ proc' = "running"]_vars
    /\ [][(pc_m = "elapsed" /\ pc_m' # pc_m) => pc_m' \in {"sleepcheck", "warn"}]_vars
    /\ [](nSends = (IF pc_m \in AfterSendPcs THEN nIter ELSE nIter - 1))

\* C8 witness: after a failed heartbeat main slept, started the next iteration
\* and drained again; the counts of the failed heartbeat were not put back.
C8_Witness ==
    /\ send_result = "err"
    /\ nIter = 2
    /\ nDrains = 2
    /\ pc_m = "send"
    /\ CountersOf(prev_snap) # ZeroCounters
    /\ CountersOf(snap) = ZeroCounters

\* C9: a lock() that returns Err changes no InputState and stops no loop.
\* The listener returns from the callback; main takes an all-zero snapshot,
\* still makes the heartbeat call with six zero counters and goes on to its
\* sleep.
C9_LockFailureSkips ==
    /\ [][nLockFailed'.listener # nLockFailed.listener
            => (state' = state /\ pc_l' = "listening" /\ proc' = "running")]_vars
    /\ [][nLockFailed'.main # nLockFailed.main
            => /\ state' = state
               /\ CountersOf(data') = ZeroCounters
               /\ pc_m' = "send"
               /\ proc' = "running"]_vars
    /\ []((m_lock = "err" /\ pc_m \in AfterSendPcs)
            => (sent.data = ZeroCounters /\ nSends = nIter))

\* C9 witness: main's lock() failed, the heartbeat went out with zero
\* counters while InputState still holds counts, and main is in its sleep.
C9_Witness ==
    /\ m_lock = "err"
    /\ pc_m = "sleeping"
    /\ sent.data = ZeroCounters
    /\ CountersOf(state) # ZeroCounters
    /\ proc = "running"

\* C10: once the blocking capture call has returned Err the process has
\* exited with a non-zero status, in listen mode and in grab mode.
C10_CaptureErrorIsFatal == capture_failed => (proc = "exited" /\ exit_code # 0)

\* C10, grab mode only: the error path that calls process::exit(1).
C10_GrabOnly == (capture_failed /\ mode = "grab") => (proc = "exited" /\ exit_code = 1)

\* C11: in grab mode every callback invocation that returns, whatever the
\* kind of its event and whether its lock() succeeded, returns the event it
\* was called with; nothing else changes the returned value.
C11_GrabPassesThrough ==
    /\ [][(mode = "grab" /\ pc_l \in {"lock", "mark"} /\ pc_l' = "listening")
            => (returned' = ev /\ returned' \in EventTypes)]_vars
    /\ [][returned' # returned => (pc_l \in {"lock", "mark"} /\ pc_l' = "listening")]_vars

\* C11 witness: in grab mode, with RUNNING true, a counted event was applied
\* and then an ignored kind was handed back as well.
C11_Witness ==
    /\ mode = "grab"
    /\ RUNNING
    /\ pc_l = "listening"
    /\ returned = Ev("KeyRelease", 0, 0)
    /\ applied # ZeroCounters

\* An InputState st holds exactly the events whose callbacks completed (per
\* the record p), each with all of its counter writes and its activity mark:
\* delta_x = delta_y, every counter is the sum of the whole contributions
\* (in the counter's width), and last_activity is the mark of the latest
\* classified one.
WholeEvents(st, p) ==
    /\ st.delta_x = st.delta_y
    /\ \A c \in Counters : st[c] = p.sum[c] % Modulus
    /\ (p.classified >= 1) => (st.last_activity = p.last)

\* C12: in every state in which no guard is alive, and in every drained
\* snapshot, InputState holds whole events only: no counter write of an event
\* without its other counter write and its activity mark.
C12_AtomicWithMark ==
    /\ (lock_holder = "none") => WholeEvents(state, since)
    /\ (nDrains >= 1) => WholeEvents(snap, period)

\* C12, as far as the code supports it: the same in the states in which the
\* Mutex can be acquired, and in every drained snapshot.
C12_NoDrainSeesPartial ==
    /\ LockFree => WholeEvents(state, since)
    /\ (nDrains >= 1) => WholeEvents(snap, period)

\* The executions of the drain block so far: those that held the lock and
\* those whose lock() failed and took the all-zero snapshot instead.
DrainBlocks == nDrains + nLockFailed.main

CounterLowered == \E c \in Counters : state'[c] < state[c]

\* C14: no step but a drain lowers a counter; in particular no counter write
\* of the listener does, however close to the counter's maximum it starts.
C14_CountersMonotone == [][CounterLowered => DrainStep]_vars

\* C14, as far as the code supports it: the same for the steps in which no
\* addition exceeds the counter's width.
C14_UpToOverflow == [][(CounterLowered /\ ~overflowed') => DrainStep]_vars

\* C15: every change of last_activity ends a critical section in which at
\* least one of the six counters strictly increased.
C15_MarkFollowsIncrease ==
    [][state'.last_activity # state.last_activity => increased]_vars

\* A Wheel notification that adds nothing to either counter.
ZeroWheel(e) == e.type = "Wheel" /\ e.delta_x = 0 /\ e.delta_y = 0

\* C15, as far as the code supports it: the same for the events other than
\* a Wheel with deltas (0, 0), while no addition has overflowed.
C15_ExceptZeroWheel ==
    [][(state'.last_activity # state.last_activity /\ ~ZeroWheel(ev) /\ ~overflowed)
         => increased]_vars

\* C16: when the work of the iteration took less than the interval, the
\* remainder sleep is made of slices of at most sleep_interval each, and if
\* RUNNING is still true when it ends their total is the interval minus
\* elapsed, so that work and sleep add up to one interval; when the work
\* took the interval or longer, main prints the warning instead, sleeps no
\* slice and goes to the loop head; every iteration starts with fresh
\* locals, so its remainder is the interval minus its own elapsed whatever
\* the iterations before it took.
C16_RemainderSleep ==
    /\ [][(pc_m = "elapsed" /\ pc_m' # pc_m)
            => /\ slept' = 0
               /\ IF elapsed' < Interval
                  THEN pc_m' = "sleepcheck" /\ remaining' = Interval - elapsed'
                  ELSE pc_m' = "warn"]_vars
    /\ [][(pc_m = "warn" /\ pc_m' # pc_m)
            => (elapsed >= Interval /\ pc_m' = "loop" /\ slept' = 0)]_vars
    /\ [][(pc_m' = "warn" /\ pc_m # "warn") => (pc_m = "elapsed" /\ elapsed' >= Interval)]_vars
    /\ [][slept' > slept
            => /\ pc_m = "sleeping"
               /\ current_sleep > 0
               /\ current_sleep <= sleep_interval
               /\ slept' = slept + current_sleep]_vars
    /\ []((pc_m \in {"sleepcheck", "sleeping"}) => (slept + remaining = Interval - elapsed))
    /\ [][(pc_m = "sleepcheck" /\ pc_m' = "loop" /\ RUNNING)
            => (slept = Interval - elapsed /\ elapsed + slept = Interval)]_vars
    /\ [][(pc_m = "loop" /\ pc_m' = "lock")
            => (elapsed = 0 /\ slept = 0 /\ UNCHANGED <<elapsed, slept, remaining>>)]_vars

\* C16 witness: in its second iteration main took MaxSleep ticks less than
\* the interval and has slept exactly those, in more than one slice, with
\* RUNNING still true.
C16_Witness ==
    /\ nIter = 2
    /\ RUNNING
    /\ pc_m = "sleepcheck"
    /\ remaining = 0
    /\ slept = MaxSleep
    /\ elapsed = Interval - MaxSleep
    /\ MaxSleep > sleep_interval

\* The steps of the handler closure, in program order.
HandlerOrder == {<<"idle", "store">>, <<"store", "grace">>, <<"grace", "exited">>}

\* C17: RUNNING is true from the start until the handler's store and false
\* ever after; the only step that changes it is that store, which takes it
\* from true to false and which the handler executes once; no step of the
\* listener or of main writes it.
C17_RunningMonotone ==
    /\ [](RUNNING <=> (pc_h \in {"idle", "store"}))
    /\ [][RUNNING' # RUNNING
            => /\ RUNNING /\ ~RUNNING'
               /\ pc_h = "store" /\ pc_h' = "grace"
               /\ UNCHANGED <<listener_vars, main_vars>>]_vars
    /\ [][~RUNNING => ~RUNNING']_vars
    /\ [][pc_h' # pc_h => (<<pc_h, pc_h'>> \in HandlerOrder)]_vars

\* C17 witness: the flag is false while the listener is inside a callback
\* and main is in its sleep, both still running.
C17_Witness ==
    /\ ~RUNNING
    /\ proc = "running"
    /\ pc_h = "grace"
    /\ pc_l = "update"
    /\ pc_m = "sleeping"

\* C18: main holds the guard exactly in its copy and reset steps (not while
\* it sends, computes elapsed, warns or sleeps), the listener exactly in the
\* counter writes and the activity mark of one event; a guard is only taken
\* when nobody holds one, so the two critical sections never overlap; and a
\* callback waiting in lock() gets out of it (with the guard, or with Err
\* from a poisoned Mutex) unless the process ends first.
C18_LockDiscipline ==
    /\ [](lock_holder = "main" <=> pc_m \in {"copy", "reset"})
    /\ [](lock_holder = "listener" <=> pc_l \in {"update", "mark"})
    /\ [](~(pc_m \in {"copy", "reset"} /\ pc_l \in {"update", "mark"}))
    /\ [][(lock_holder' # lock_holder /\ lock_holder' # "none") => lock_holder = "none"]_vars
    /\ [][(lock_holder = "listener" /\ lock_holder' = "listener")
            => (ev' = ev /\ nEvents' = nEvents)]_vars
    /\ (pc_l = "lock") ~> (pc_l # "lock" \/ proc # "running")

\* C18 witness: a callback is waiting in lock() while main holds the guard
\* between its copy and its reset.
C18_Witness ==
    /\ proc = "running"
    /\ pc_l = "lock"
    /\ lock_holder = "main"
    /\ pc_m = "reset"
    /\ CountersOf(data) # ZeroCounters

\* C19: the step in which main finds RUNNING false at the loop head ends
\* main without touching InputState and without a heartbeat call; after it,
\* and after any other end of the process, nothing is drained or sent; so
\* when main is done every heartbeat call belonged to an iteration, what was
\* reported is what the iterations drained, and the counts InputState holds
\* at that moment are in no report.
C19_NoFinalFlush ==
    /\ [][(pc_m = "loop" /\ pc_m' = "done")
            => /\ ~RUNNING
               /\ proc' = "exited"
               /\ UNCHANGED <<state, data, nDrains, nSends, sent, reported, drained>>]_vars
    /\ [][(pc_m = "done" \/ proc # "running")
            => UNCHANGED <<state, nDrains, nSends, sent, reported, drained>>]_vars
    /\ []((pc_m = "done") => (nSends = nIter /\ DrainBlocks = nIter /\ reported = drained))

\* C19 witness: main has left the loop and the process has ended with
\* heartbeats sent before and with counts in InputState that no heartbeat
\* carried.
C19_Witness ==
    /\ pc_m = "done"
    /\ proc = "exited"
    /\ nSends >= 1
    /\ CountersOf(state) # ZeroCounters
    /\ reported = drained
    /\ reported # applied
====
